---- MODULE Spec2Model ----
(***************************************************************************)
(* A model of circleci-cli (src/main.go): the Project and Filter flag      *)
(* values, project resolution from `git remote -v`, and the run of main:   *)
(* app.Before, flag parsing, each subcommand's Action with its API calls,  *)
(* handleClientError and the process exit status.                          *)
(*                                                                         *)
(* Go strings are sequences of one-character strings, so that splitting,   *)
(* prefix tests and suffix trimming are computed character by character.   *)
(***************************************************************************)
EXTENDS Integers, Sequences, FiniteSets, TLC

VARIABLES
    pc,              \* position of main: resolve, before, parse, action, ..., exited
    exit,            \* "running", or the process exit status 0, 1, 2 (panic)
    stderr,          \* what was written to standard error, in order
    currentProject,  \* *Project returned by getCurrentProject, shared by the flags
    gitFailed,       \* exec.Command("git","remote","-v") returned an error
    nscanned,        \* lines of the remote listing consumed by scanner.Scan
    line,            \* the line getCurrentProject returned on (<<>> if none)
    sawOriginField,  \* some consumed line has first field exactly "origin"
    value,           \* the string handed to Project.Set / Filter.Set
    p,               \* the Project receiver of Set / String
    setErr,          \* the error returned by Set (Nil or a message)
    str,             \* the result of Project.String / Filter.String
    filter,          \* the Filter receiver of Set / String
    Client,          \* the global *circleci.Client: "nil" or [Token |-> ...]
    runErr,          \* the error app.Run returns to main ("nil" if none)
    cmd,             \* the subcommand dispatched ("" before dispatch)
    flags,           \* the parsed flags of the subcommand's cli.Context
    calls,           \* every HTTP request issued, in order, with its outcome
    stdout,          \* what was written to standard output, in order
    build,           \* show: the build GetBuild returned
    nodes,           \* show: the node indexes printBuild is still to be called with
    stepIdx,         \* show: the step printBuild is at
    artifacts,       \* list-artifacts: the artifacts ListBuildArtifacts returned
    artifactIdx,     \* list-artifacts: the artifact the loop is at
    download         \* list-artifacts: what the last downloadFile call did

resolveVars == <<currentProject, gitFailed, nscanned, line, sawOriginField>>
projectVars == <<value, p, setErr, str, filter>>
runVars == <<Client, runErr, cmd, flags, calls, stdout, build, nodes, stepIdx, artifacts,
             artifactIdx, download>>
vars == <<pc, exit, stderr, resolveVars, projectVars, runVars>>

----------------------------------------------------------------------------
(* Bounds of the model.                                                    *)

MaxStrLen == 4      \* longest string handed to Project.Set
MaxPathLen == 3     \* longest path part of a remote URL
MaxLines == 2       \* lines of the remote listing scanned, in resolution alone
MaxRunLines == 1    \* lines of the remote listing scanned, in the whole run
MaxBuildNum == 2    \* largest build number (flag value or API result)
MaxBuilds == 1      \* longest list of builds the API returns
MaxArgs == 2        \* most positional arguments given
MaxParallel == 2    \* most nodes of a build, and largest --build-node
MaxArtifacts == 2   \* most artifacts of a build

----------------------------------------------------------------------------
(* Strings.                                                                *)

RECURSIVE SeqsUpTo(_, _)
SeqsUpTo(S, n) ==
    IF n = 0 THEN {<<>>}
    ELSE LET shorter == SeqsUpTo(S, n - 1)
         IN  shorter \cup {Append(s, c) : s \in {t \in shorter : Len(t) = n - 1}, c \in S}

HasChar(seq, c) == \E i \in 1..Len(seq) : seq[i] = c

\* strings.HasPrefix
HasPrefix(s, prefix) ==
    /\ Len(s) >= Len(prefix)
    /\ SubSeq(s, 1, Len(prefix)) = prefix

\* strings.HasSuffix / strings.TrimSuffix: one occurrence of suffix removed
HasSuffix(s, suffix) ==
    /\ Len(s) >= Len(suffix)
    /\ SubSeq(s, Len(s) - Len(suffix) + 1, Len(s)) = suffix

\* strings.TrimRight(s, cutset) used where TrimSuffix is: every trailing
\* character that occurs in the second argument is removed
RECURSIVE TrimRightCutset(_, _)
TrimRightCutset(s, cutset) ==
    IF s # <<>> /\ HasChar(cutset, s[Len(s)])
    THEN TrimRightCutset(SubSeq(s, 1, Len(s) - 1), cutset)
    ELSE s

TrimSuffix(s, suffix) ==
    IF HasSuffix(s, suffix) THEN SubSeq(s, 1, Len(s) - Len(suffix)) ELSE s

\* strings.Split(s, sep) for a one-character sep: every piece between two
\* separators, empty pieces included; never the empty list.
RECURSIVE SplitFrom(_, _, _, _)
SplitFrom(s, sep, i, cur) ==
    IF i > Len(s) THEN <<cur>>
    ELSE IF s[i] = sep THEN <<cur>> \o SplitFrom(s, sep, i + 1, <<>>)
    ELSE SplitFrom(s, sep, i + 1, Append(cur, s[i]))

Split(s, sep) == SplitFrom(s, sep, 1, <<>>)

\* strings.SplitN(s, sep, 2): split at the first separator only.
RECURSIVE IndexFrom(_, _, _)
IndexFrom(s, sep, i) ==
    IF i > Len(s) THEN 0
    ELSE IF s[i] = sep THEN i
    ELSE IndexFrom(s, sep, i + 1)

\* strings.Split used where SplitN(.., 2) is: the pieces after the second are lost
SplitN2AtEvery(s, sep) == Split(s, sep)

SplitN2(s, sep) ==
    LET i == IndexFrom(s, sep, 1)
    IN  IF i = 0 THEN <<s>>
        ELSE <<SubSeq(s, 1, i - 1), SubSeq(s, i + 1, Len(s))>>

\* strings.Fields: the maximal runs of non-space characters.
IsSpace(c) == c \in {" ", "\t"}

RECURSIVE FieldsFrom(_, _, _)
FieldsFrom(s, i, cur) ==
    IF i > Len(s) THEN (IF cur = <<>> THEN <<>> ELSE <<cur>>)
    ELSE IF IsSpace(s[i])
         THEN (IF cur = <<>> THEN <<>> ELSE <<cur>>) \o FieldsFrom(s, i + 1, <<>>)
    ELSE FieldsFrom(s, i + 1, Append(cur, s[i]))

Fields(s) == FieldsFrom(s, 1, <<>>)

Origin == <<"o", "r", "i", "g", "i", "n">>
DotGit == <<".", "g", "i", "t">>
Slash == <<"/">>

----------------------------------------------------------------------------
(* type Project, Project.Set, Project.String                               *)

Nil == <<"nil">>     \* the nil error

Project(a, r) == [Account |-> a, Repository |-> r]
EmptyProject == Project(<<>>, <<>>)

\* Project.Set with the two parts assigned the wrong way round
ProjectSetSwapped(proj, v) ==
    LET parts == SplitN2(v, "/")
    IN  IF Len(parts) < 2
        THEN [p |-> proj, err |-> <<"could not parse ">> \o v \o <<" as '<account>/<repo>'">>]
        ELSE [p |-> Project(parts[2], parts[1]), err |-> Nil]

\* Project.Set with Account assigned before the number of parts is checked
ProjectSetAssignFirst(proj, v) ==
    LET parts == SplitN2(v, "/")
    IN  IF Len(parts) < 2
        THEN [p |-> Project(parts[1], proj.Repository),
              err |-> <<"could not parse ">> \o v \o <<" as '<account>/<repo>'">>]
        ELSE [p |-> Project(parts[1], parts[2]), err |-> Nil]

\* Project.Set: the receiver after the call and the error returned
ProjectSet(proj, v) ==
    LET parts == SplitN2(v, "/")
    IN  IF Len(parts) < 2
        THEN [p |-> proj, err |-> <<"could not parse ">> \o v \o <<" as '<account>/<repo>'">>]
        ELSE [p |-> Project(parts[1], parts[2]), err |-> Nil]

\* Project.String
ProjectString(proj) ==
    IF proj.Account = <<>> /\ proj.Repository = <<>>
    THEN <<>>
    ELSE proj.Account \o Slash \o proj.Repository

----------------------------------------------------------------------------
(* getCurrentProject: one step for the command, one per scanned line.      *)

WarnGit == "warning: could not determine current project, command failed"
WarnFields == "warning: could not determine current project, unexpected number of fields"
WarnSlash == "warning: could not determine current project, expected /"
WarnScanner == "warning: could not determine current project: scanner error"
WarnNoOrigin == "warning: could not determine current project: no origin set"

\* the field count of a line is checked with < where the source has !=
TooFewFields(fields) == Len(fields) < 3

\* len(fields) != 3
WrongFieldCount(fields) == Len(fields) # 3

\* the project of the URL field: its last two '/'-separated segments after
\* its last ':', or the warning written
ProjectOfURL(url) ==
    LET byColon == Split(url, ":")
        parts == Split(byColon[Len(byColon)], "/")
    IN  IF Len(parts) < 2
        THEN [project |-> EmptyProject, warning |-> WarnSlash]
        ELSE [project |-> Project(parts[Len(parts) - 1],
                                  TrimSuffix(parts[Len(parts)], DotGit)),
              warning |-> ""]

\* the loop body on one line: continue, or return a project with a warning
\* ("" when none is written)
LineStep(l) ==
    IF ~HasPrefix(l, Origin)
    THEN [kind |-> "continue", project |-> EmptyProject, warning |-> ""]
    ELSE LET fields == Fields(l)
         IN  IF WrongFieldCount(fields)
             THEN [kind |-> "return", project |-> EmptyProject, warning |-> WarnFields]
             ELSE LET r == ProjectOfURL(fields[2])
                  IN  [kind |-> "return", project |-> r.project, warning |-> r.warning]

FirstFieldIsOrigin(l) == Fields(l) # <<>> /\ Fields(l)[1] = Origin

\* exec.Command("git", "remote", "-v").CombinedOutput()
GitRemote ==
    /\ pc = "resolve"
    /\ \E failed \in BOOLEAN :
          /\ gitFailed' = failed
          /\ IF failed
             THEN /\ stderr' = Append(stderr, <<WarnGit>>)
                  /\ currentProject' = EmptyProject
                  /\ pc' = "before"
             ELSE /\ pc' = "scan"
                  /\ UNCHANGED <<stderr, currentProject>>
    /\ UNCHANGED <<exit, nscanned, line, sawOriginField, projectVars, runVars>>

\* scanner.Scan() returns true with the next line, one of Lines
ScanLine(Lines, maxLines) ==
    /\ pc = "scan"
    /\ nscanned < maxLines
    /\ \E l \in Lines :
          LET r == LineStep(l)
          IN  /\ nscanned' = nscanned + 1
              /\ sawOriginField' = (sawOriginField \/ FirstFieldIsOrigin(l))
              /\ IF r.kind = "continue"
                 THEN UNCHANGED <<pc, line, currentProject, stderr>>
                 ELSE /\ pc' = "before"
                      /\ line' = l
                      /\ currentProject' = r.project
                      /\ stderr' = IF r.warning = "" THEN stderr
                                   ELSE Append(stderr, <<r.warning>>)
    /\ UNCHANGED <<exit, gitFailed, projectVars, runVars>>

\* scanner.Scan() returns false: the listing is exhausted (scannerErr FALSE) or
\* the scanner failed, e.g. on a line longer than its buffer (scannerErr TRUE)
ScanEnd ==
    /\ pc = "scan"
    /\ \E scannerErr \in BOOLEAN :
          stderr' = Append(stderr, IF scannerErr THEN <<WarnScanner>>
                                   ELSE <<WarnNoOrigin>>)
    /\ currentProject' = EmptyProject
    /\ pc' = "before"
    /\ UNCHANGED <<exit, gitFailed, nscanned, line, sawOriginField, projectVars, runVars>>

\* The remote listings of the resolution specification: a remote name, then
\* nothing or a tab, a URL and a tail.
PathChars == {"a", "b", "/"}
Paths == SeqsUpTo(PathChars, MaxPathLen)
UrlStyles == { <<>>,                                   \* a bare path
               <<"g", "@", "h", ":">>,                 \* git@host:
               <<"h", ":", "/", "/", "h", "/">> }      \* https://host/
UrlSuffixes == {<<>>, DotGit, DotGit \o DotGit}
Urls == {st \o path \o suf : st \in UrlStyles, path \in Paths, suf \in UrlSuffixes}
RemoteNames == {Origin, Origin \o <<"2">>, <<"u", "p">>}
LineTails == { <<>>,                                   \* 2 fields
               <<" ", "(", "f", ")">>,                 \* 3 fields: (fetch)
               <<" ", "(", "f", ")", " ", "x">> }      \* 4 fields
ResolveLines ==
    RemoteNames \cup
    {n \o <<"\t">> \o u \o t : n \in RemoteNames, u \in Urls, t \in LineTails}

InitResolveVars ==
    /\ currentProject = EmptyProject
    /\ gitFailed = FALSE
    /\ nscanned = 0
    /\ line = <<>>
    /\ sawOriginField = FALSE

InitProjectVars ==
    /\ value = <<>>
    /\ p = EmptyProject
    /\ setErr = Nil
    /\ str = <<>>
    /\ filter = ""

NoFlags == [set |-> {}, str |-> <<>>, int |-> <<>>, project |-> EmptyProject,
            filter |-> "", nargs |-> 0, projectArg |-> <<>>, filterArg |-> ""]
NoBuild == [Parallel |-> 0, Steps |-> <<>>]
NoDownload == [outcome |-> "not called", err |-> "nil", requested |-> FALSE,
               fileOpened |-> FALSE, fileClosed |-> FALSE,
               bodyOpened |-> FALSE, bodyClosed |-> FALSE]

InitRunVars ==
    /\ Client = "nil"
    /\ runErr = "nil"
    /\ cmd = ""
    /\ flags = NoFlags
    /\ calls = <<>>
    /\ stdout = <<>>
    /\ build = NoBuild
    /\ nodes = <<>>
    /\ stepIdx = 0
    /\ artifacts = <<>>
    /\ artifactIdx = 0
    /\ download = NoDownload

InitResolve ==
    /\ pc = "resolve"
    /\ exit = "running"
    /\ stderr = <<>>
    /\ InitResolveVars
    /\ InitProjectVars
    /\ InitRunVars

NextResolve ==
    \/ GitRemote
    \/ ScanLine(ResolveLines, MaxLines)
    \/ ScanEnd

SpecResolve == InitResolve /\ [][NextResolve]_vars

----------------------------------------------------------------------------
(* Project.Set and Project.String applied to every bounded string.         *)

SetChars == {"a", "b", "/"}
SetValues == SeqsUpTo(SetChars, MaxStrLen)
PriorProjects == {EmptyProject, Project(<<"x">>, <<"y">>)}

DoProjectSet ==
    /\ pc = "set"
    /\ LET r == ProjectSet(p, value)
       IN  /\ p' = r.p
           /\ setErr' = r.err
    /\ pc' = "string"
    /\ UNCHANGED <<exit, stderr, resolveVars, runVars, value, str, filter>>

DoProjectString ==
    /\ pc = "string"
    /\ str' = ProjectString(p)
    /\ pc' = "stringed"
    /\ UNCHANGED <<exit, stderr, resolveVars, runVars, value, p, setErr, filter>>

InitProject ==
    /\ pc = "set"
    /\ exit = "running"
    /\ stderr = <<>>
    /\ InitResolveVars
    /\ value \in SetValues
    /\ p \in PriorProjects
    /\ setErr = Nil
    /\ str = <<>>
    /\ filter = ""
    /\ InitRunVars

NextProject ==
    \/ DoProjectSet
    \/ DoProjectString

SpecProject == InitProject /\ [][NextProject]_vars

----------------------------------------------------------------------------
(* type Filter, Filter.Set, Filter.String                                  *)

validFilters == <<"completed", "successful", "failed", "running">>

\* Filter.Set with *f assigned before the loop over validFilters
FilterSetAssignFirst(f, v) ==
    IF \E i \in 1..Len(validFilters) : validFilters[i] = v
    THEN [f |-> v, err |-> Nil]
    ELSE [f |-> v, err |-> <<"must be one of completed,successful,failed,running">>]

\* Filter.Set: the receiver after the call and the error returned
FilterSet(f, v) ==
    IF \E i \in 1..Len(validFilters) : validFilters[i] = v
    THEN [f |-> v, err |-> Nil]
    ELSE [f |-> f, err |-> <<"must be one of completed,successful,failed,running">>]

\* Filter.String
FilterString(f) == f

\* Filter.Set and Filter.String applied to the valid filters, the empty
\* string, and strings that differ from a valid filter by case, by a missing
\* or added character, or that join several of them.
FilterInputs == {"completed", "successful", "failed", "running", "", "bogus",
                 "Failed", "fail", "failed ", "success", "RUNNING",
                 "completed,successful,failed,running"}
PriorFilters == {"", "completed", "successful", "failed", "running"}

DoFilterSet ==
    /\ pc = "filterSet"
    /\ LET r == FilterSet(filter, value)
       IN  /\ filter' = r.f
           /\ setErr' = r.err
    /\ pc' = "filterString"
    /\ UNCHANGED <<exit, stderr, resolveVars, runVars, value, p, str>>

DoFilterString ==
    /\ pc = "filterString"
    /\ str' = FilterString(filter)
    /\ pc' = "filterStringed"
    /\ UNCHANGED <<exit, stderr, resolveVars, runVars, value, p, setErr, filter>>

InitFilter ==
    /\ pc = "filterSet"
    /\ exit = "running"
    /\ stderr = <<>>
    /\ InitResolveVars
    /\ value \in FilterInputs
    /\ p = EmptyProject
    /\ setErr = Nil
    /\ str = ""
    /\ filter \in PriorFilters
    /\ InitRunVars

NextFilter ==
    \/ DoFilterSet
    \/ DoFilterString

SpecFilter == InitFilter /\ [][NextFilter]_vars

----------------------------------------------------------------------------
(* Errors of the API client, and handleClientError.                        *)

NoErr == [type |-> "nil", HTTPStatusCode |-> 0, msg |-> ""]
APIError(code, text) == [type |-> "APIError", HTTPStatusCode |-> code, msg |-> text]
ApiErrors == { APIError(401, "401: Unauthorized"),
               APIError(403, "403: Forbidden"),
               APIError(404, "404: Not Found"),
               [type |-> "error", HTTPStatusCode |-> 0, msg |-> "dial tcp: connection refused"] }

MsgNoToken == <<"unauthorized -- please supply API token either using -t or using the CIRCLE_TOKEN environment variable">>
MsgBadToken == <<"unauthorized -- supplied API token is not valid for this action">>
MsgPanic == <<"panic: runtime error: index out of range">>

\* handleClientError with os.Exit(1) inside the 401/403 case only
handleClientErrorExitInCase(err) ==
    IF err = NoErr
    THEN [out |-> <<>>, exits |-> FALSE]
    ELSE IF err.type = "APIError" /\ err.HTTPStatusCode \in {401, 403}
         THEN [out |-> <<IF Client.Token = "" THEN MsgNoToken ELSE MsgBadToken>>,
               exits |-> TRUE]
         ELSE [out |-> << <<err.msg>> >>, exits |-> FALSE]

\* handleClientError with the test of Client.Token inverted
handleClientErrorTokenInverted(err) ==
    IF err = NoErr
    THEN [out |-> <<>>, exits |-> FALSE]
    ELSE IF err.type = "APIError" /\ err.HTTPStatusCode \in {401, 403}
         THEN [out |-> <<IF Client.Token # "" THEN MsgNoToken ELSE MsgBadToken>>,
               exits |-> TRUE]
         ELSE [out |-> << <<err.msg>> >>, exits |-> TRUE]

\* handleClientError: what it prints, and whether it calls os.Exit(1)
handleClientError(err) ==
    IF err = NoErr
    THEN [out |-> <<>>, exits |-> FALSE]
    ELSE IF err.type = "APIError" /\ err.HTTPStatusCode \in {401, 403}
         THEN [out |-> <<IF Client.Token = "" THEN MsgNoToken ELSE MsgBadToken>>,
               exits |-> TRUE]
         ELSE [out |-> << <<err.msg>> >>, exits |-> TRUE]

----------------------------------------------------------------------------
(* The cli.Context of the subcommand: lookups by flag name.  A name that   *)
(* no flag of the subcommand has is never set and reads as the zero value. *)

CIsSet(name) == name \in flags.set
CBool(name) == name \in flags.set
CString(name) == IF name \in DOMAIN flags.str THEN flags.str[name] ELSE ""
CInt(name) == IF name \in DOMAIN flags.int THEN flags.int[name] ELSE 0

\* An HTTP request of the API client, as logged in calls
Call(op, account, repo, args, err) ==
    [op |-> op, account |-> account, repo |-> repo, args |-> args, err |-> err,
     builds |-> <<>>]

\* a list-recent-builds request, with the build numbers it returned
ListCall(op, account, repo, args, resp) ==
    [op |-> op, account |-> account, repo |-> repo, args |-> args, err |-> resp.err,
     builds |-> resp.builds]

\* The outcome of a handler: the requests it issued, what it printed, and how
\* it ended: "return", "exit1" (os.Exit(1)), "panic", or the pc of its loop.
Res(cs, errOut, out, end) == [calls |-> cs, err |-> errOut, out |-> out, end |-> end]

Apply(res) ==
    /\ calls' = calls \o res.calls
    /\ stderr' = stderr \o res.err
    /\ stdout' = stdout \o res.out
    /\ pc' = CASE res.end = "return" -> "returned"
               [] res.end \in {"exit1", "panic"} -> "exited"
               [] OTHER -> res.end
    /\ exit' = CASE res.end = "exit1" -> 1
                 [] res.end = "panic" -> 2
                 [] OTHER -> exit

\* The responses of the list-recent-builds calls: an error, or build numbers
BuildNums == 1..MaxBuildNum
ListResponses ==
    {[err |-> e, builds |-> <<>>] : e \in ApiErrors}
    \cup {[err |-> NoErr, builds |-> b] : b \in SeqsUpTo(BuildNums, MaxBuilds)}
\* The responses of the other calls, as far as the handlers read them
Responses == {[err |-> e] : e \in ApiErrors \cup {NoErr}}

----------------------------------------------------------------------------
(* main: app.Before, the parsing of the subcommand's flags, app.Run's end. *)

Colors == {"auto", "always", "never", "sometimes"}
Tokens == {"", "tok"}
TokenFiles == {"", "unreadable", "holds-empty", "holds-tok"}

\* app.Before
Before ==
    /\ pc = "before"
    /\ \E color \in Colors, hostParses \in BOOLEAN, token \in Tokens, tokenFile \in TokenFiles :
          IF color \notin {"always", "never", "auto"}
          THEN /\ runErr' = "unexpected --color value"
               /\ pc' = "returned"
               /\ UNCHANGED Client
          ELSE IF ~hostParses
          THEN /\ runErr' = "url.Parse error"
               /\ pc' = "returned"
               /\ UNCHANGED Client
          ELSE IF token = "" /\ tokenFile = "unreadable"
          THEN /\ runErr' = "unable to read token-file"
               /\ pc' = "returned"
               /\ UNCHANGED Client
          ELSE /\ Client' = [Token |-> IF token = "" /\ tokenFile = "holds-tok"
                                        THEN "tok" ELSE token]
               /\ pc' = "parse"
               /\ UNCHANGED runErr
    /\ UNCHANGED <<exit, stderr, resolveVars, projectVars, cmd, flags, calls, stdout,
                   build, nodes, stepIdx, artifacts, artifactIdx, download>>

Commands == {"projects", "recent-builds", "show", "list-artifacts", "test-metadata",
             "retry-build", "cancel-build", "build", "clear-cache", "add-env-var",
             "list-env-vars", "delete-env-var", "add-ssh-key"}

\* the flags each subcommand declares (limit and offset stay at their defaults)
CmdFlags(c) ==
    CASE c = "projects" -> {"verbose", "project"}
      [] c = "recent-builds" -> {"all", "project", "branch", "filter"}
      [] c = "show" -> {"project", "build-num", "build-node", "verbose"}
      [] c = "list-artifacts" -> {"project", "build-num", "download"}
      [] c \in {"test-metadata", "retry-build", "cancel-build"} -> {"project", "build-num"}
      [] c = "build" -> {"project", "branch"}
      [] OTHER -> {"project"}

\* the subcommands that check len(c.Args()), with the number they expect
RequiredArgs == [x \in {"add-env-var", "add-ssh-key"} |-> 2] @@ [x \in {"delete-env-var"} |-> 1]

StrFlags == {"branch", "download"}
IntFlags == {"build-num", "build-node"}
DefaultLimit == 30
DefaultOffset == 0

RunProjectValues == { <<"c", "/", "d">>, <<"c", "d">> }
FilterValues == {"completed", "successful", "failed", "running", "", "bogus"}
BranchValues == {"master"}
DownloadPatterns == {".*", "("}
Nodes == 0..MaxParallel

\* Command.Run: the flag set parses the arguments, calling Set on the Value of
\* each generic flag given; an error ends the run before the Action.
ParseCommand ==
    /\ pc = "parse"
    /\ \E c \in Commands :
       \E set \in SUBSET CmdFlags(c), pv \in RunProjectValues, fv \in FilterValues,
          branch \in BranchValues, pattern \in DownloadPatterns,
          num \in 0..MaxBuildNum, node \in Nodes,
          nargs \in (IF c \in DOMAIN RequiredArgs THEN 0..MaxArgs ELSE {0}) :
          LET default == IF c = "projects" THEN EmptyProject ELSE currentProject
              ps == IF "project" \in set THEN ProjectSet(default, pv)
                    ELSE [p |-> default, err |-> Nil]
              fs == IF "filter" \in set THEN FilterSet("", fv)
                    ELSE [f |-> "", err |-> Nil]
              strs == [n \in CmdFlags(c) \cap StrFlags |->
                         IF n \notin set THEN ""
                         ELSE IF n = "branch" THEN branch ELSE pattern]
              ints == [n \in (CmdFlags(c) \cap IntFlags) |->
                         IF n \notin set THEN 0
                         ELSE IF n = "build-num" THEN num ELSE node]
          IN  /\ cmd' = c
              /\ IF ps.err # Nil \/ fs.err # Nil
                 THEN /\ runErr' = "invalid value for flag"
                      /\ pc' = "returned"
                      /\ UNCHANGED <<flags, currentProject>>
                 ELSE /\ flags' = [set |-> set, str |-> strs, int |-> ints,
                                   project |-> ps.p, filter |-> FilterString(fs.f),
                                   nargs |-> nargs,
                                   projectArg |-> IF "project" \in set THEN pv ELSE <<>>,
                                   filterArg |-> IF "filter" \in set THEN fv ELSE ""]
                      /\ currentProject' = IF c = "projects" THEN currentProject ELSE ps.p
                      /\ pc' = "action"
                      /\ UNCHANGED runErr
    /\ UNCHANGED <<exit, stderr, gitFailed, nscanned, line, sawOriginField, projectVars,
                   Client, calls, stdout, build, nodes, stepIdx, artifacts, artifactIdx, download>>

\* main after app.Run: the error, if any, is printed and main returns
MainReturn ==
    /\ pc = "returned"
    /\ stderr' = IF runErr # "nil" THEN Append(stderr, <<runErr>>) ELSE stderr
    /\ exit' = 0
    /\ pc' = "exited"
    /\ UNCHANGED <<resolveVars, projectVars, runVars>>

----------------------------------------------------------------------------
(* The Actions of the subcommands.                                         *)

\* branch "", status "", limit 1, offset 0: the latest build of the project
LatestArgs == <<"", "", 1, 0>>

\* latestBuild: the request, what is printed, and the build number returned
\* ("ok"), or the end of the process
latestBuild(project, resp) ==
    LET call == ListCall("ListRecentBuildsForProject", project.Account,
                         project.Repository, LatestArgs, resp)
        h == handleClientError(resp.err)
    IN  IF resp.err # NoErr /\ h.exits
        THEN [calls |-> <<call>>, err |-> h.out, end |-> "exit1", BuildNum |-> 0]
        ELSE IF Len(resp.builds) = 0
        THEN \* handleClientError(err) with err nil returns; builds[0] is out of range
             [calls |-> <<call>>, err |-> handleClientError(resp.err).out \o <<MsgPanic>>,
              end |-> "panic", BuildNum |-> 0]
        ELSE [calls |-> <<call>>, err |-> <<>>, end |-> "ok", BuildNum |-> resp.builds[1]]

\* One API call on the project, its error handled by handleClientError
ProjectCall(op, args, resp, out) ==
    LET call == Call(op, flags.project.Account, flags.project.Repository, args, resp.err)
        h == handleClientError(resp.err)
    IN  IF resp.err # NoErr /\ h.exits
        THEN Res(<<call>>, h.out, <<>>, "exit1")
        ELSE Res(<<call>>, <<>>, out, "return")

\* first, then next even when first ended the process
AfterRegardless(first, next) ==
    Res(first.calls \o next.calls, first.err \o next.err, next.out, next.end)

\* first, then next unless first ended the process
After(first, next) ==
    IF first.end # "ok" THEN Res(first.calls, first.err, <<>>, first.end)
    ELSE Res(first.calls \o next.calls, first.err \o next.err, next.out, next.end)

actionVars == <<resolveVars, projectVars, Client, runErr, cmd, flags>>

Projects ==
    /\ pc = "action" /\ cmd = "projects"
    /\ \E resp \in Responses :
          LET call == Call("ListProjects", <<>>, <<>>, <<>>, resp.err)
              h == handleClientError(resp.err)
          IN  Apply(IF resp.err # NoErr /\ h.exits
                    THEN Res(<<call>>, h.out, <<>>, "exit1")
                    ELSE Res(<<call>>, <<>>, <<"projects">>, "return"))
    /\ UNCHANGED <<actionVars, build, nodes, stepIdx, artifacts, artifactIdx, download>>

\* the flags --all may not be combined with, as the Action lists them
AllExcludes == <<"project", "branch", "status">>

RecentBuilds ==
    /\ pc = "action" /\ cmd = "recent-builds"
    /\ \E resp \in ListResponses :
          LET clash == {i \in 1..Len(AllExcludes) : CIsSet(AllExcludes[i])}
              first == CHOOSE i \in clash : \A j \in clash : i <= j
          IN  Apply(
                IF CBool("all") /\ clash # {}
                THEN Res(<<>>, << <<"--", AllExcludes[first], " cannot be used with --all">> >>,
                         <<>>, "exit1")
                ELSE LET call ==
                           IF CBool("all")
                           THEN ListCall("ListRecentBuilds", <<>>, <<>>,
                                         <<DefaultLimit, DefaultOffset>>, resp)
                           ELSE ListCall("ListRecentBuildsForProject",
                                         flags.project.Account, flags.project.Repository,
                                         <<CString("branch"), CString("status"),
                                           DefaultLimit, DefaultOffset>>, resp)
                         h == handleClientError(resp.err)
                     IN  IF resp.err # NoErr /\ h.exits
                         THEN Res(<<call>>, h.out, <<>>, "exit1")
                         ELSE Res(<<call>>, <<>>, <<"builds">>, "return"))
    /\ UNCHANGED <<actionVars, build, nodes, stepIdx, artifacts, artifactIdx, download>>

\* test-metadata, retry-build and cancel-build: the build number, then one call
BuildNumCommand(c, op, out) ==
    /\ pc = "action" /\ cmd = c
    /\ \E r1 \in ListResponses, r2 \in Responses :
          LET latest == latestBuild(flags.project, r1)
          IN  Apply(
                IF CIsSet("build-num")
                THEN ProjectCall(op, <<CInt("build-num")>>, r2, out)
                ELSE After(latest, ProjectCall(op, <<latest.BuildNum>>, r2, out)))
    /\ UNCHANGED <<actionVars, build, nodes, stepIdx, artifacts, artifactIdx, download>>

TestMetadata == BuildNumCommand("test-metadata", "ListTestMetadata", <<"metadata">>)
RetryBuild == BuildNumCommand("retry-build", "RetryBuild", <<"build url">>)
CancelBuild == BuildNumCommand("cancel-build", "CancelBuild", <<"canceled build">>)

Build ==
    /\ pc = "action" /\ cmd = "build"
    /\ \E r1 \in Responses, r2 \in Responses, defaultBranch \in BranchValues :
          LET call == Call("GetProject", flags.project.Account,
                           flags.project.Repository, <<>>, r1.err)
              lookup == IF r1.err # NoErr
                        THEN Res(<<call>>, << <<r1.err.msg>> >>, <<>>, "exit1")
                        ELSE Res(<<call>>, <<>>, <<>>, "ok")
          IN  Apply(
                IF CIsSet("branch")
                THEN ProjectCall("Build", <<CString("branch")>>, r2, <<"build url">>)
                ELSE After(lookup,
                           ProjectCall("Build", <<defaultBranch>>, r2, <<"build url">>)))
    /\ UNCHANGED <<actionVars, build, nodes, stepIdx, artifacts, artifactIdx, download>>

\* clear-cache and list-env-vars: one call on the project
ProjectCommand(c, op, out) ==
    /\ pc = "action" /\ cmd = c
    /\ \E resp \in Responses : Apply(ProjectCall(op, <<>>, resp, out))
    /\ UNCHANGED <<actionVars, build, nodes, stepIdx, artifacts, artifactIdx, download>>

ClearCache == ProjectCommand("clear-cache", "ClearCache", <<"status">>)
ListEnvVars == ProjectCommand("list-env-vars", "ListEnvVars", <<"env vars">>)

\* add-env-var, delete-env-var and add-ssh-key: the arguments counted, one call
ArgsCommand(c, op, usage, out) ==
    /\ pc = "action" /\ cmd = c
    /\ \E resp \in Responses :
          Apply(IF flags.nargs # RequiredArgs[c]
                THEN Res(<<>>, << <<usage>> >>, <<>>, "exit1")
                ELSE ProjectCall(op, <<flags.nargs>>, resp, out))
    /\ UNCHANGED <<actionVars, build, nodes, stepIdx, artifacts, artifactIdx, download>>

AddEnvVar == ArgsCommand("add-env-var", "AddEnvVar", "must specify name and value", <<"added">>)
DeleteEnvVar == ArgsCommand("delete-env-var", "DeleteEnvVar", "must specify name", <<"deleted">>)
AddSSHKey == ArgsCommand("add-ssh-key", "AddSSHKey", "must specify hostname and private key",
                         <<"added key">>)

----------------------------------------------------------------------------
(* show and printBuild.                                                    *)

\* show and list-artifacts resolve the build number in the Action itself
latestOrNoBuilds(project, resp) ==
    LET call == ListCall("ListRecentBuildsForProject", project.Account,
                         project.Repository, LatestArgs, resp)
        h == handleClientError(resp.err)
    IN  IF resp.err # NoErr /\ h.exits
        THEN [calls |-> <<call>>, err |-> h.out, end |-> "exit1", BuildNum |-> 0]
        ELSE IF Len(resp.builds) = 0
        THEN [calls |-> <<call>>, err |-> << <<"no builds">> >>, end |-> "exit1",
              BuildNum |-> 0]
        ELSE [calls |-> <<call>>, err |-> <<>>, end |-> "ok", BuildNum |-> resp.builds[1]]

\* the build number of the Action: --build-num, or the latest build's
buildNum(resp) ==
    IF CIsSet("build-num")
    THEN [calls |-> <<>>, err |-> <<>>, end |-> "ok", BuildNum |-> CInt("build-num")]
    ELSE latestOrNoBuilds(flags.project, resp)

Action(parallel, hasOutput) == [Parallel |-> parallel, HasOutput |-> hasOutput]
Step(actions) == [Actions |-> actions]

\* The builds GetBuild returns in the specification of the whole run
RunBuilds ==
    { [Parallel |-> 0, Steps |-> <<>>],
      [Parallel |-> 1, Steps |-> <<Step(<<Action(FALSE, TRUE)>>)>>],
      [Parallel |-> 2, Steps |-> <<Step(<<Action(TRUE, TRUE), Action(TRUE, FALSE)>>),
                                   Step(<<Action(FALSE, TRUE)>>)>>],
      [Parallel |-> 2, Steps |-> <<Step(<<Action(TRUE, FALSE)>>)>>],
      [Parallel |-> 1, Steps |-> <<Step(<<>>)>>] }

BuildResponses(Builds) ==
    {[err |-> e, build |-> NoBuild] : e \in ApiErrors}
    \cup {[err |-> NoErr, build |-> b] : b \in Builds}

Range(n) == [k \in 1..n |-> k - 1]

Show(Builds) ==
    /\ pc = "action" /\ cmd = "show"
    /\ \E r1 \in ListResponses, r2 \in BuildResponses(Builds) :
          LET toPrint == IF CIsSet("build-node") THEN <<CInt("build-node")>>
                         ELSE Range(r2.build.Parallel)
              num == buildNum(r1)
              get ==
                  LET call == Call("GetBuild", flags.project.Account,
                                   flags.project.Repository, <<num.BuildNum>>, r2.err)
                      h == handleClientError(r2.err)
                  IN  IF r2.err # NoErr /\ h.exits
                      THEN Res(<<call>>, h.out, <<>>, "exit1")
                      ELSE Res(<<call>>, <<>>, <<"build">>,
                               IF toPrint = <<>> \/ r2.build.Steps = <<>>
                               THEN "return" ELSE "printBuild")
              res == After(num, get)
          IN  /\ Apply(res)
              /\ IF res.end = "printBuild"
                 THEN /\ build' = r2.build
                      /\ nodes' = toPrint
                      /\ stepIdx' = 1
                 ELSE UNCHANGED <<build, nodes, stepIdx>>
    /\ UNCHANGED <<actionVars, artifacts, artifactIdx, download>>

\* printBuild(build, i, verbose): one iteration of its loop over build.Steps,
\* i the first of nodes
PrintBuild ==
    /\ pc = "printBuild"
    /\ \E resp \in Responses :
          LET i == Head(nodes)
              step == build.Steps[stepIdx]
              first == step.Actions[1]
              action == IF first.Parallel THEN step.Actions[i + 1] ELSE first
              lastStep == stepIdx = Len(build.Steps)
              res ==
                  IF Len(step.Actions) = 0 THEN Res(<<>>, <<MsgPanic>>, <<>>, "panic")
                  ELSE IF first.Parallel /\ i + 1 \notin 1..Len(step.Actions)
                  THEN Res(<<>>, <<MsgPanic>>, <<>>, "panic")
                  ELSE LET call == Call("GetActionOutputs", <<>>, <<>>,
                                        <<stepIdx, IF first.Parallel THEN i ELSE 0>>,
                                        resp.err)
                           fetch == CBool("verbose") /\ action.HasOutput
                       IN  Res(IF fetch THEN <<call>> ELSE <<>>,
                               IF fetch /\ resp.err # NoErr
                               THEN << <<"error retrieving action output: ", resp.err.msg>> >>
                               ELSE <<>>,
                               <<"step">> \o (IF fetch THEN <<"output">> ELSE <<>>),
                               IF lastStep /\ Len(nodes) = 1 THEN "return" ELSE "printBuild")
          IN  /\ Apply(res)
              /\ IF res.end = "printBuild"
                 THEN /\ stepIdx' = IF lastStep THEN 1 ELSE stepIdx + 1
                      /\ nodes' = IF lastStep THEN Tail(nodes) ELSE nodes
                 ELSE UNCHANGED <<stepIdx, nodes>>
    /\ UNCHANGED <<actionVars, build, artifacts, artifactIdx, download>>

----------------------------------------------------------------------------
(* list-artifacts and downloadFile.                                        *)

DownloadOutcomes == {"mkdir fails", "create fails", "get fails", "bad status",
                     "copy fails", "ok"}

\* downloadFile with out.Close() and resp.Body.Close() called before the final
\* return instead of deferred
downloadFileCloseAtEnd(outcome) ==
    LET mkdirAll == outcome # "mkdir fails"
        create == mkdirAll /\ outcome # "create fails"
        get == create /\ outcome # "get fails"
        closed == IF outcome = "ok" THEN {"out", "resp.Body"} ELSE {}
    IN  [outcome |-> outcome,
         err |-> IF outcome = "ok" THEN "nil" ELSE outcome,
         requested |-> create,
         fileOpened |-> create, fileClosed |-> "out" \in closed,
         bodyOpened |-> get, bodyClosed |-> "resp.Body" \in closed]

\* downloadFile on the path named by outcome: the error returned, whether the
\* HTTP request was issued, and the file and response body it opened and, by
\* the deferred calls that run when it returns, closed
downloadFile(outcome) ==
    LET mkdirAll == outcome # "mkdir fails"               \* os.MkdirAll
        create == mkdirAll /\ outcome # "create fails"    \* os.Create
        get == create /\ outcome # "get fails"            \* http.Get
        deferred == (IF create THEN {"out"} ELSE {})
                    \cup (IF get THEN {"resp.Body"} ELSE {})
    IN  [outcome |-> outcome,
         err |-> IF outcome = "ok" THEN "nil" ELSE outcome,
         requested |-> create,
         fileOpened |-> create, fileClosed |-> "out" \in deferred,
         bodyOpened |-> get, bodyClosed |-> "resp.Body" \in deferred]

Artifact(matches) == [matches |-> matches]
ArtifactLists == SeqsUpTo({Artifact(TRUE), Artifact(FALSE)}, MaxArtifacts)
ArtifactResponses ==
    {[err |-> e, artifacts |-> <<>>] : e \in ApiErrors}
    \cup {[err |-> NoErr, artifacts |-> a] : a \in ArtifactLists}

\* regexp.Compile
Compiles(pattern) == pattern # "("

ListArtifacts ==
    /\ pc = "action" /\ cmd = "list-artifacts"
    /\ \E r1 \in ListResponses, r2 \in ArtifactResponses :
          LET num == buildNum(r1)
              list ==
                  LET call == Call("ListBuildArtifacts", flags.project.Account,
                                   flags.project.Repository, <<num.BuildNum>>, r2.err)
                      h == handleClientError(r2.err)
                  IN  IF r2.err # NoErr /\ h.exits
                      THEN Res(<<call>>, h.out, <<>>, "exit1")
                      ELSE IF CIsSet("download") /\ ~Compiles(CString("download"))
                      THEN Res(<<call>>, << <<"error parsing regexp">> >>, <<>>, "exit1")
                      ELSE Res(<<call>>, <<>>, <<"artifacts">>,
                               IF r2.artifacts = <<>> THEN "return" ELSE "artifacts")
              res == After(num, list)
          IN  /\ Apply(res)
              /\ IF res.end = "artifacts"
                 THEN /\ artifacts' = r2.artifacts
                      /\ artifactIdx' = 1
                 ELSE UNCHANGED <<artifacts, artifactIdx>>
    /\ UNCHANGED <<actionVars, build, nodes, stepIdx, download>>

\* one iteration of the loop over the artifacts
ListArtifact ==
    /\ pc = "artifacts"
    /\ \E outcome \in DownloadOutcomes :
          LET artifact == artifacts[artifactIdx]
              d == downloadFile(outcome)
              matched == CIsSet("download") /\ artifact.matches
              call == Call("GET artifact", <<>>, <<>>, <<artifactIdx>>,
                           IF d.err = "nil" THEN NoErr
                           ELSE [type |-> "error", HTTPStatusCode |-> 0, msg |-> d.err])
              res == IF matched /\ d.err # "nil"
                     THEN Res(IF d.requested THEN <<call>> ELSE <<>>, << <<d.err>> >>,
                              <<"artifact">>, "exit1")
                     ELSE Res(IF matched THEN <<call>> ELSE <<>>, <<>>, <<"artifact">>,
                              IF artifactIdx = Len(artifacts) THEN "return" ELSE "artifacts")
          IN  /\ Apply(res)
              /\ artifactIdx' = IF res.end = "artifacts" THEN artifactIdx + 1 ELSE artifactIdx
              /\ download' = IF matched THEN d ELSE download
    /\ UNCHANGED <<actionVars, build, nodes, stepIdx, artifacts>>

----------------------------------------------------------------------------
(* The run of main.                                                        *)

\* The lines of the remote listing in the specification of the whole run
RunLines ==
    { Origin \o <<"\t">> \o <<"g", "@", "h", ":", "a", "/", "b">> \o DotGit
          \o <<" ", "(", "f", ")">>,
      Origin \o <<"2", "\t", "h", ":", "/", "/", "h", "/", "b", "/", "a", " ", "(", "f", ")">>,
      Origin \o <<"\t", "a", "/", "b">>,
      <<"u", "p", "\t", "g", "@", "h", ":", "b", "/", "b", " ", "(", "f", ")">> }

Init ==
    /\ pc = "resolve"
    /\ exit = "running"
    /\ stderr = <<>>
    /\ InitResolveVars
    /\ InitProjectVars
    /\ InitRunVars

Next ==
    \/ GitRemote
    \/ ScanLine(RunLines, MaxRunLines)
    \/ ScanEnd
    \/ Before
    \/ ParseCommand
    \/ Projects
    \/ RecentBuilds
    \/ Show(RunBuilds)
    \/ PrintBuild
    \/ ListArtifacts
    \/ ListArtifact
    \/ TestMetadata
    \/ RetryBuild
    \/ CancelBuild
    \/ Build
    \/ ClearCache
    \/ AddEnvVar
    \/ ListEnvVars
    \/ DeleteEnvVar
    \/ AddSSHKey
    \/ MainReturn

Spec == Init /\ [][Next]_vars

----------------------------------------------------------------------------
(* Properties.                                                             *)

Exited == pc = "exited"
Last(seq) == seq[Len(seq)]
Contains(seq, x) == \E i \in 1..Len(seq) : seq[i] = x
IsClashMessage(m) == Len(m) = 3 /\ m[3] = " cannot be used with --all"

\* C1: in recent-builds, --all given with any of --project, --branch, --filter
\* ends the run with an error on standard error and exit status 1, and no
\* request is issued.
C1_AllExcludesFilters ==
    (cmd = "recent-builds" /\ pc \in {"returned", "exited"}
       /\ "all" \in flags.set /\ flags.set \cap {"project", "branch", "filter"} # {})
    => /\ calls = <<>>
       /\ exit = 1
       /\ stderr # <<>> /\ IsClashMessage(Last(stderr))

BuildNumCommands == {"show", "list-artifacts", "test-metadata", "retry-build", "cancel-build"}

\* C2: a subcommand taking --build-num, run without it, uses the number of the
\* first build the list-recent-builds call returned for its next call; when the
\* list is empty it ends with a message on standard error and exit status 1,
\* with no further call and no crash.
C2_LatestBuildOrError ==
    (cmd \in BuildNumCommands /\ Exited /\ "build-num" \notin flags.set
       /\ calls # <<>> /\ calls[1].err = NoErr)
    => /\ calls[1].op = "ListRecentBuildsForProject"
       /\ IF calls[1].builds = <<>>
          THEN /\ Len(calls) = 1
               /\ exit = 1
               /\ stderr # <<>> /\ Last(stderr) # MsgPanic
          ELSE /\ Len(calls) >= 2
               /\ calls[2].args = <<calls[1].builds[1]>>

\* the message handleClientError is to render for an error
Rendered(err) ==
    IF err.type = "APIError" /\ err.HTTPStatusCode \in {401, 403}
    THEN (IF Client.Token = "" THEN MsgNoToken ELSE MsgBadToken)
    ELSE <<err.msg>>

ApiCalls == {k \in 1..Len(calls) : calls[k].op # "GET artifact"}

C4_FilterIsPassed ==
    (cmd = "recent-builds" /\ "all" \notin flags.set /\ calls # <<>>)
    => calls[1].args[2] = (IF "filter" \in flags.set THEN flags.filterArg ELSE "")

\* the project getCurrentProject resolved
Resolved == IF line = <<>> THEN EmptyProject ELSE LineStep(line).project

ProjectOps == {"ListRecentBuildsForProject", "GetBuild", "ListBuildArtifacts",
               "ListTestMetadata", "RetryBuild", "CancelBuild", "GetProject", "Build",
               "ClearCache", "AddEnvVar", "ListEnvVars", "DeleteEnvVar", "AddSSHKey"}

ErrorOutcome ==
    \/ runErr \in {"unable to read token-file", "unexpected --color value"}
    \/ \E k \in 1..Len(calls) : calls[k].err # NoErr /\ calls[k].op # "GetActionOutputs"
    \/ cmd \in DOMAIN RequiredArgs /\ pc # "action" /\ flags.nargs # RequiredArgs[cmd]
    \/ /\ cmd = "recent-builds" /\ "all" \in flags.set
       /\ flags.set \cap {"project", "branch", "filter"} # {}

C6_ExitStatus ==
    (Exited /\ ErrorOutcome) => exit = 1

\* What the properties of resolution say of a line, computed on its characters.
NumFields(l) ==
    Cardinality({i \in 1..Len(l) : ~IsSpace(l[i]) /\ (i = 1 \/ IsSpace(l[i - 1]))})
LastIndex(s, c) ==
    IF HasChar(s, c) THEN CHOOSE i \in 1..Len(s) : s[i] = c /\ \A j \in (i + 1)..Len(s) : s[j] # c
    ELSE 0
Url(l) == Fields(l)[2]
AfterLastColon(u) == SubSeq(u, LastIndex(u, ":") + 1, Len(u))
SegmentsOK(u) == HasChar(AfterLastColon(u), "/")
LastSegment(u) ==
    LET rest == AfterLastColon(u)
    IN  SubSeq(rest, LastIndex(rest, "/") + 1, Len(rest))
SecondToLastSegment(u) ==
    LET rest == AfterLastColon(u)
        before == SubSeq(rest, 1, LastIndex(rest, "/") - 1)
    IN  SubSeq(before, LastIndex(before, "/") + 1, Len(before))
WithoutDotGit(x) ==
    IF Len(x) >= 4 /\ SubSeq(x, Len(x) - 3, Len(x)) = <<".", "g", "i", "t">>
    THEN SubSeq(x, 1, Len(x) - 4)
    ELSE x

ResolutionReturned == pc = "before"
ResolutionFailed ==
    \/ gitFailed
    \/ line = <<>>
    \/ NumFields(line) # 3
    \/ ~SegmentsOK(Url(line))
Warnings == {WarnGit, WarnFields, WarnSlash, WarnScanner, WarnNoOrigin}

\* C7: getCurrentProject never ends the process, and on each failure path (the
\* command fails, no line begins with "origin", the line has not exactly 3
\* fields, its URL has fewer than 2 segments) it returns the empty Project with
\* one warning on standard error, and main goes on to app.Run.
C7_ResolutionNeverFatal ==
    /\ exit = "running"
    /\ (ResolutionReturned /\ ResolutionFailed)
       => /\ currentProject = EmptyProject
          /\ Len(stderr) = 1 /\ stderr[1][1] \in Warnings

C7_Witness ==
    /\ ResolutionReturned
    /\ line # <<>> /\ NumFields(line) = 3 /\ ~SegmentsOK(Url(line))
    /\ nscanned = 2
    /\ stderr = << <<WarnSlash>> >>

\* C8: when no line of the listing has "origin" as its first field, the
\* resolved project is empty; a project is only derived from such a line.
C8_OnlyOriginRemote ==
    (ResolutionReturned /\ ~sawOriginField) => currentProject = EmptyProject

\* C9 as claimed: an origin line of 3 fields whose URL has at least 2 segments
\* after its last ':' resolves to the second-to-last segment as Account and the
\* last, less one trailing ".git", as Repository, both non-empty.
C9_SegmentsNonEmpty ==
    (ResolutionReturned /\ line # <<>> /\ FirstFieldIsOrigin(line)
       /\ NumFields(line) = 3 /\ SegmentsOK(Url(line)))
    => /\ currentProject.Account = SecondToLastSegment(Url(line))
       /\ currentProject.Repository = WithoutDotGit(LastSegment(Url(line)))
       /\ currentProject.Account # <<>>
       /\ currentProject.Repository # <<>>

\* C9 as amended: the line resolution returns on (the first that begins with
\* "origin"), when it has 3 fields and its URL at least 2 segments after its
\* last ':', resolves to the second-to-last segment as Account and the last,
\* less one trailing ".git", as Repository; each is empty when its segment is.
C9_LastTwoSegments ==
    (ResolutionReturned /\ line # <<>> /\ NumFields(line) = 3 /\ SegmentsOK(Url(line)))
    => /\ currentProject.Account = SecondToLastSegment(Url(line))
       /\ currentProject.Repository = WithoutDotGit(LastSegment(Url(line)))
       /\ stderr = <<>>

\* a scheme-style URL ending in ".git.git" has been resolved
C9_Witness ==
    /\ ResolutionReturned
    /\ line = Origin \o <<"\t", "h", ":", "/", "/", "h", "/", "a", "/", "b">>
                 \o DotGit \o DotGit \o <<" ", "(", "f", ")">>
    /\ currentProject = Project(<<"a">>, <<"b">> \o DotGit)

FirstSlash(s) == CHOOSE i \in 1..Len(s) : s[i] = "/" /\ \A j \in 1..(i - 1) : s[j] # "/"

\* C10 as claimed: for every s with a '/', Set(s) succeeds with Account the part
\* before the first '/' and Repository all that follows, and String() is s.
C10_SetStringRoundTrip ==
    (pc = "stringed" /\ HasChar(value, "/"))
    => /\ setErr = Nil
       /\ p.Account = SubSeq(value, 1, FirstSlash(value) - 1)
       /\ p.Repository = SubSeq(value, FirstSlash(value) + 1, Len(value))
       /\ str = value

\* C10 as amended: the same, except that for s = "/" String() is "".
C10_RoundTripButSlash ==
    (pc = "stringed" /\ HasChar(value, "/"))
    => /\ setErr = Nil
       /\ p.Account = SubSeq(value, 1, FirstSlash(value) - 1)
       /\ p.Repository = SubSeq(value, FirstSlash(value) + 1, Len(value))
       /\ str = (IF value = <<"/">> THEN <<>> ELSE value)

C10_Witness ==
    /\ pc = "stringed"
    /\ value = <<"a", "/", "/", "b">>
    /\ p = Project(<<"a">>, <<"/", "b">>)
    /\ str = value

\* value occurs in the message err
Names(err, v) == \E i \in 1..(Len(err) + 1) : SubSeq(err, i, i + Len(v) - 1) = v

\* C11: for every string with no '/', Project.Set returns an error whose
\* message contains the string, and leaves Account and Repository as they were.
C11_RejectedSetKeepsProject ==
    [][(pc = "set" /\ ~HasChar(value, "/"))
       => /\ setErr' # Nil
          /\ Names(setErr', value)
          /\ p' = p]_vars

\* a string without '/' was rejected and the Project set before is still there
C11_Witness ==
    /\ pc = "stringed"
    /\ value = <<"a", "b">>
    /\ setErr # Nil
    /\ p = Project(<<"x">>, <<"y">>)
    /\ str = <<"x", "/", "y">>

\* C12: Filter.Set(v) returns nil exactly when v is one of completed,
\* successful, failed, running, and then String() is v; otherwise it returns an
\* error and the Filter, and so String(), is what it was ("" is rejected too).
C12_FilterSetValidOnly ==
    [][/\ pc = "filterSet"
          => IF value \in {"completed", "successful", "failed", "running"}
             THEN setErr' = Nil /\ filter' = value
             ELSE setErr' # Nil /\ filter' = filter
       /\ pc = "filterString" => str' = filter /\ filter' = filter]_vars

\* the empty string was rejected and String() returns the filter set before
C12_Witness ==
    /\ pc = "filterStringed"
    /\ value = ""
    /\ setErr # Nil
    /\ filter = "failed"
    /\ str = "failed"

\* the requests whose error is handed to handleClientError
HandledOps == {"ListProjects", "ListRecentBuilds", "ListRecentBuildsForProject",
               "GetBuild", "ListBuildArtifacts", "ListTestMetadata", "RetryBuild",
               "CancelBuild", "Build", "ClearCache", "AddEnvVar", "ListEnvVars",
               "DeleteEnvVar", "AddSSHKey"}
IsUnauthorized(err) == err.type = "APIError" /\ err.HTTPStatusCode \in {401, 403}

\* latestBuild found no build and no error: it has called handleClientError(nil)
NilErrorHandled ==
    /\ cmd \in {"test-metadata", "retry-build", "cancel-build"}
    /\ "build-num" \notin flags.set
    /\ calls # <<>> /\ calls[1].err = NoErr /\ calls[1].builds = <<>>

\* C13: for a 401 or 403 API error handleClientError writes the no-token message
\* exactly when Client.Token is empty and the token-not-valid message exactly
\* when it is not; for any other error it writes the error's message; for a
\* nil error it writes nothing and does not exit (control goes on in the caller).
C13_HandleClientErrorMessages ==
    /\ \A k \in 1..Len(calls) :
          (calls[k].op \in HandledOps /\ calls[k].err # NoErr)
          => /\ stderr # <<>>
             /\ IF IsUnauthorized(calls[k].err)
                THEN /\ Last(stderr) = MsgNoToken <=> Client.Token = ""
                     /\ Last(stderr) = MsgBadToken <=> Client.Token # ""
                ELSE Last(stderr) = <<calls[k].err.msg>>
    /\ NilErrorHandled
       => /\ exit # 1
          /\ \A i \in 1..Len(stderr) : stderr[i] = MsgPanic \/ stderr[i][1] \in Warnings

\* a 403 without a token has been rendered as the no-token message
C13_Witness ==
    /\ Exited /\ exit = 1
    /\ calls # <<>> /\ Last(calls).op = "ListEnvVars"
    /\ Last(calls).err = APIError(403, "403: Forbidden")
    /\ Client.Token = ""
    /\ Last(stderr) = MsgNoToken

\* C14: whenever downloadFile has returned, the destination file, if it was
\* opened (the directory and the file were created), is closed, and the
\* response body, if a response was obtained, is closed; the error returned is
\* nil exactly when a 200 response was fully copied.
C14_DownloadReleases ==
    download.outcome # "not called"
    => /\ download.fileOpened <=> download.outcome \notin {"mkdir fails", "create fails"}
       /\ download.bodyOpened <=> download.outcome \in {"bad status", "copy fails", "ok"}
       /\ download.fileOpened => download.fileClosed
       /\ download.bodyOpened => download.bodyClosed
       /\ download.err = "nil" <=> download.outcome = "ok"

\* a download failed while copying: the run ends with the error, and both the
\* file and the response body were closed
C14_Witness ==
    /\ Exited /\ exit = 1
    /\ download.outcome = "copy fails"
    /\ download.fileOpened /\ download.fileClosed
    /\ download.bodyOpened /\ download.bodyClosed
    /\ Last(stderr) = <<"copy fails">>

\* the requests a subcommand issues outside its loops: the lookup of the latest
\* build or of the project, and the request the subcommand is for
FixedRequests(c) ==
    CASE c \in {"projects", "recent-builds", "clear-cache", "add-env-var",
                "list-env-vars", "delete-env-var", "add-ssh-key"} -> 1
      [] c \in {"show", "list-artifacts", "test-metadata", "retry-build",
                "cancel-build", "build"} -> 2
      [] OTHER -> 0
\* the places of a subcommand's code that issue a request: those above, and
\* the one inside the loop of show (printBuild) and of list-artifacts
RequestSites(c) == FixedRequests(c) + (IF c \in {"show", "list-artifacts"} THEN 1 ELSE 0)

SameRequest(a, b) ==
    a.op = b.op /\ a.account = b.account /\ a.repo = b.repo /\ a.args = b.args
OutputCalls == {k \in 1..Len(calls) : calls[k].op = "GetActionOutputs"}
DownloadCalls == {k \in 1..Len(calls) : calls[k].op = "GET artifact"}
FixedCalls == (1..Len(calls)) \ (OutputCalls \cup DownloadCalls)
PrintedNodes == IF "build-node" \in flags.set THEN 1 ELSE build.Parallel

\* C15 as claimed: a run issues no more requests than its subcommand has
\* request sites, whatever the responses hold, and no request that failed is
\* issued again.
C15_RequestsBounded ==
    /\ Len(calls) <= RequestSites(cmd)
    /\ \A i, j \in 1..Len(calls) :
          (i < j /\ calls[i].err # NoErr) => ~SameRequest(calls[i], calls[j])

\* C15 as amended: outside its loops a subcommand issues at most one or two
\* requests; show --verbose adds one action-output request per step printed for
\* each node printed, and list-artifacts --download one per matching artifact;
\* a failed request is the last of the run, unless it is an action-output
\* request, after which the run goes on.
C15_RequestsBoundedButLoops ==
    /\ Cardinality(FixedCalls) <= FixedRequests(cmd)
    /\ OutputCalls # {} => cmd = "show" /\ "verbose" \in flags.set
    /\ Cardinality(OutputCalls) <= Len(build.Steps) * PrintedNodes
    /\ DownloadCalls # {} => cmd = "list-artifacts" /\ "download" \in flags.set
    /\ Cardinality(DownloadCalls)
          <= Cardinality({k \in 1..Len(artifacts) : k <= artifactIdx /\ artifacts[k].matches})
    /\ \A k \in 1..Len(calls) :
          (calls[k].err # NoErr /\ calls[k].op # "GetActionOutputs") => k = Len(calls)

\* show --verbose has issued five requests, and has requested the output of
\* the same action again after the request failed
C15_Witness ==
    /\ Exited /\ exit = 0
    /\ cmd = "show"
    /\ Len(calls) = 5
    /\ \E i, j \in OutputCalls :
          i < j /\ calls[i].err # NoErr /\ SameRequest(calls[i], calls[j])

\* C16: printBuild reads step.Actions only at indexes it has: show never ends
\* in an index-out-of-range panic, whatever --build-node and the build's steps.
C16_PrintBuildInRange ==
    (cmd = "show" /\ Exited) => /\ exit # 2
                                /\ ~Contains(stderr, MsgPanic)

====
